---- MODULE Spec2Model ----
(***************************************************************************)
(* Model of noanchovies/scraper-engine: the CLI command `run` (cli.py),    *)
(* the orchestrator run_scraper and the four pipeline functions            *)
(* setup_driver, navigate_to_url, extract_data, handle_data (scraper.py).  *)
(*                                                                         *)
(* Python strings are sequences of one-character strings.  An optional     *)
(* value (Python None or a value) is NoneOpt or Some(v).                   *)
(***************************************************************************)
EXTENDS Integers, Sequences, FiniteSets, TLC

VARIABLES
    pc,             \* position of the process: cli.run / run_scraper step
    contract,       \* which extract_data/handle_data the module holds
    runNo,          \* number of the process invocation
    now,            \* local wall clock, in seconds since ClockEpoch
    started,        \* clock reading when the current run entered run_scraper
    output_file,    \* run_scraper argument
    wait_time,      \* run_scraper argument
    driver,         \* run_scraper local: "None" or "session"
    success,        \* run_scraper local
    page_html,      \* run_scraper local
    extracted_info, \* run_scraper local
    session,        \* the browser session: "none", "open", "closed"
    calls,          \* calls made by run_scraper in this run, in order
    thrown,         \* exception raised inside run_scraper's try body
    escaping,       \* exception propagating out of run_scraper
    io_failed,      \* handle_data logged an I/O failure in this run
    exit_code,      \* typer.Exit code of the process, -1 while running
    dirs,           \* directories that exist
    files,          \* path -> number of the run that last wrote it
    written         \* write events of handle_data, over all runs

vars == <<pc, contract, runNo, now, started, output_file, wait_time,
          driver, success, page_html, extracted_info, session, calls, thrown,
          escaping, io_failed, exit_code, dirs, files, written>>

---------------------------------------------------------------------------
(* Bounds of the model.                                                    *)

MaxRuns == 2          \* process invocations in a multi-run behaviour
Horizon == 6          \* seconds the clock may advance past ClockStart
MaxContainers == 2    \* div.quote containers in a sampled page
MaxTextLen == 3       \* characters of an element's text

---------------------------------------------------------------------------
(* Python values.                                                          *)

NoneOpt == <<>>
Some(v) == <<v>>

SeqsUpTo(S, n) == UNION {[1..k -> S] : k \in 0..n}

\* bool(s) of a str
TruthyStr(s) == s # <<>>

IsSpace(c) == c = " "

RECURSIVE LStrip(_)
LStrip(s) == IF s = <<>> THEN s
             ELSE IF IsSpace(Head(s)) THEN LStrip(Tail(s)) ELSE s

RECURSIVE RStrip(_)
RStrip(s) == IF s = <<>> THEN s
             ELSE IF IsSpace(s[Len(s)]) THEN RStrip(SubSeq(s, 1, Len(s) - 1))
             ELSE s

\* str.strip()
Strip(s) == RStrip(LStrip(s))

\* str.replace(ch, '')
Remove(s, ch) == SelectSeq(s, LAMBDA c : c # ch)

\* str.rfind(ch), 1-based; 0 when ch does not occur
RFind(s, ch) == IF \E i \in 1..Len(s) : s[i] = ch
                THEN CHOOSE i \in 1..Len(s) :
                        s[i] = ch /\ \A j \in (i+1)..Len(s) : s[j] # ch
                ELSE 0

---------------------------------------------------------------------------
(* extract_data                                                            *)

\* stand-ins for the two curly double quotes U+201C and U+201D
LDQuo == "<"
RDQuo == ">"

\* item['quote'] of a container whose span.text element is text_element
QuoteOf(text_element) ==
    IF text_element # NoneOpt
    THEN Some(Remove(Remove(Strip(text_element[1]), LDQuo), RDQuo))
    ELSE NoneOpt

\* item['author'] of a container whose small.author element is author_element
AuthorOf(author_element) ==
    IF author_element # NoneOpt THEN Some(Strip(author_element[1])) ELSE NoneOpt

\* bool(v) of an Optional[str]
TruthyOpt(v) == v # NoneOpt /\ TruthyStr(v[1])

KeepQuoteOnly(item) == TruthyOpt(item.quote)

\* `if item['quote'] and item['author']`
Keep(item) == TruthyOpt(item.quote) /\ TruthyOpt(item.author)

ItemOf(quote_div) == [quote  |-> QuoteOf(quote_div.text),
                      author |-> AuthorOf(quote_div.author)]

RECURSIVE ExtractLoop(_, _)
ExtractLoop(quote_divs, extracted_items) ==
    IF quote_divs = <<>> THEN extracted_items
    ELSE LET item == ItemOf(Head(quote_divs))
         IN  ExtractLoop(Tail(quote_divs),
                         IF Keep(item) THEN Append(extracted_items, item)
                         ELSE extracted_items)

\* extract_data(page_source), page_source parsed into its div.quote containers
extract_data(page_source) ==
    IF page_source.divs = <<>> THEN <<>>
    ELSE ExtractLoop(page_source.divs, <<>>)

---------------------------------------------------------------------------
(* handle_data: the output path                                            *)

Digit(n) == CASE n = 0 -> "0" [] n = 1 -> "1" [] n = 2 -> "2" [] n = 3 -> "3"
              [] n = 4 -> "4" [] n = 5 -> "5" [] n = 6 -> "6" [] n = 7 -> "7"
              [] n = 8 -> "8" [] n = 9 -> "9"

TwoDigits(n) == <<Digit((n \div 10) % 10), Digit(n % 10)>>

\* the clock starts three seconds before midnight of the epoch's first day, so
\* that the readings cross a minute, an hour and a day
ClockStart == 24 * 60 * 60 - 3
MaxTime == ClockStart + Horizon

StrftimeNoSeconds(t) ==
    <<"2", "0", "2", "6">> \o <<"0", "1">> \o TwoDigits(t \div (24 * 60 * 60) + 1)
    \o <<"_">> \o TwoDigits((t \div 3600) % 24) \o TwoDigits((t \div 60) % 60)

\* datetime.strftime("%Y%m%d_%H%M%S") of the local time t seconds after
\* 2026-01-01 00:00:00 (t within January 2026)
Strftime(t) ==
    <<"2", "0", "2", "6">> \o <<"0", "1">> \o TwoDigits(t \div (24 * 60 * 60) + 1)
    \o <<"_">> \o TwoDigits((t \div 3600) % 24) \o TwoDigits((t \div 60) % 60)
    \o TwoDigits(t % 60)

\* os.path.splitext(p) on POSIX: <<root, ext>>
splitext(p) ==
    LET sepIndex == RFind(p, "/")
        dotIndex == RFind(p, ".")
    IN  IF dotIndex > sepIndex
           /\ \E k \in (sepIndex + 1)..(dotIndex - 1) : p[k] # "."
        THEN <<SubSeq(p, 1, dotIndex - 1), SubSeq(p, dotIndex, Len(p))>>
        ELSE <<p, <<>> >>

RECURSIVE RStripSlash(_)
RStripSlash(s) == IF s = <<>> THEN s
                  ELSE IF s[Len(s)] = "/" THEN RStripSlash(SubSeq(s, 1, Len(s) - 1))
                  ELSE s

\* os.path.dirname(p) on POSIX
dirname(p) ==
    LET head == SubSeq(p, 1, RFind(p, "/"))
    IN  IF head # <<>> /\ \E k \in 1..Len(head) : head[k] # "/"
        THEN RStripSlash(head) ELSE head

DefaultExtension == <<".", "c", "s", "v">>

\* final_filename of handle_data called with output_file at clock reading t
final_filename(out, t) ==
    LET base_name == splitext(out)[1]
        ext       == splitext(out)[2]
        extension == IF ~TruthyStr(ext) THEN DefaultExtension ELSE ext
    IN  base_name \o <<"_">> \o Strftime(t) \o extension

NeverSkip(data) == FALSE

\* `if not data: return` of handle_data
SkipWrite(data) == data = <<>>

\* output_dir and the directories os.makedirs(output_dir) creates above it
RECURSIVE Ancestors(_)
Ancestors(d) == IF d = <<>> \/ dirname(d) = d THEN {}
                ELSE {d} \cup Ancestors(dirname(d))

---------------------------------------------------------------------------
(* Inputs.                                                                 *)

Alphabet == {" ", LDQuo, RDQuo, "q"}
RichTexts == SeqsUpTo(Alphabet, MaxTextLen)
OptTexts == {NoneOpt} \cup {Some(t) : t \in RichTexts}

GoodDiv     == [text |-> Some(<<LDQuo, "q", RDQuo>>), author |-> Some(<<"a">>)]
OtherDiv    == [text |-> Some(<<"r">>),               author |-> Some(<<" ", "b">>)]
NoAuthorDiv == [text |-> Some(<<"q">>),               author |-> NoneOpt]
NoTextDiv   == [text |-> NoneOpt,                     author |-> Some(<<"a">>)]
BlankDiv    == [text |-> Some(<<" ">>),               author |-> Some(<<"a">>)]
SampleContainers == {GoodDiv, OtherDiv, NoAuthorDiv, NoTextDiv, BlankDiv}

EmptyPage == [empty |-> TRUE, divs |-> <<>>]
PageOf(divs) == [empty |-> FALSE, divs |-> divs]

\* what driver.page_source may hold in a run
SamplePages == {EmptyPage}
               \cup {PageOf(s) : s \in SeqsUpTo({GoodDiv, NoAuthorDiv}, MaxContainers)}

\* inputs of extract_data checked on their own
ExtractInputs ==
    {PageOf(<<[text |-> t, author |-> a]>>) : t \in OptTexts, a \in OptTexts}
    \cup {PageOf(s) : s \in SeqsUpTo(SampleContainers, MaxContainers)}

\* values of --output
OutputNames == { <<"o">>, <<"d", ".", "x", "/", "o">>, <<".", "h">> }
\* values of config.OUTPUT_FILENAME
ConfigNames == { <<>>, <<"o", ".", "t">> }

Contracts == {"example", "extract_unimplemented", "handle_unimplemented"}

---------------------------------------------------------------------------
(* Exceptions.                                                             *)

\* the exception types the pipeline raises; every one derives from Exception
IsExceptionSubclass(e) ==
    e \in {"WebDriverException", "TimeoutException", "OSError", "NotImplementedError"}

CatchesNothing(e) == FALSE

\* run_scraper: `except Exception as e`
Catches(e) == IsExceptionSubclass(e)

SuccessOnExceptionTrue == TRUE

\* run_scraper: `success = False` of the except clause
SuccessOnException == FALSE

HandleCatchesNothing(e) == FALSE

\* handle_data: `except IOError` / `except Exception` around the write
HandleCatches(e) == IsExceptionSubclass(e)

AlwaysTruthy(html) == TRUE

\* run_scraper: `if page_html:`
TruthyHtml(html) == ~html.empty

ReleaseAlways(d) == TRUE

ReleaseNever(d) == FALSE

\* run_scraper: `if driver:` of the finally clause
ReleaseNeeded(d) == d # "None"

\* cli.run: CLI option if given, else the config value
Resolve(cli, cfg) == IF cli # NoneOpt THEN cli[1] ELSE cfg

\* cli.run: `if not isinstance(resolved_wait_time, int) or resolved_wait_time < 0`
CoerceWait(w) == IF w < 0 THEN 5 ELSE w

---------------------------------------------------------------------------
(* State after construction.                                               *)

NoPage == EmptyPage

Locals ==
    /\ output_file = <<>> /\ wait_time = 0
    /\ driver = "None" /\ success = FALSE
    /\ page_html = NoPage /\ extracted_info = <<>>
    /\ session = "none" /\ calls = <<>>
    /\ thrown = "None" /\ escaping = "None" /\ io_failed = FALSE
    /\ exit_code = -1

InitWith(c) ==
    /\ pc = "cli" /\ contract = c
    /\ runNo = 1 /\ now = ClockStart /\ started = ClockStart
    /\ Locals
    /\ dirs \in SUBSET {<<"d", ".", "x">>}
    /\ files = <<>> /\ written = <<>>

\* the repository as it is: the example extract_data and handle_data
Init == InitWith("example")

\* the base template cli.run prepares for: extract_data or handle_data may be
\* left unimplemented
InitTemplate == \E c \in Contracts : InitWith(c)

---------------------------------------------------------------------------
(* cli.run up to the call of run_scraper.                                  *)

\* (the headless flag only selects a Chrome option in setup_driver and is left out)
CliRun(target_url_cli, BASE_URL, output_file_cli, OUTPUT_FILENAME, wait_time_cli, DEFAULT_WAIT_TIME) ==
    LET resolved_url       == Resolve(target_url_cli, BASE_URL)
        resolved_output    == Resolve(output_file_cli, OUTPUT_FILENAME)
        resolved_wait_time == Resolve(wait_time_cli, DEFAULT_WAIT_TIME)
    IN  /\ pc = "cli"
        /\ IF ~TruthyStr(resolved_url) \/ ~TruthyStr(resolved_output)
           THEN /\ exit_code' = 1
                /\ pc' = "exited"
                /\ UNCHANGED <<output_file, wait_time, calls, started>>
           ELSE /\ output_file' = resolved_output
                /\ wait_time' = CoerceWait(resolved_wait_time)
                /\ calls' = <<"run_scraper">>
                /\ started' = now
                /\ pc' = "setup"
                /\ UNCHANGED exit_code
        /\ UNCHANGED <<contract, runNo, now, driver, success, page_html,
                       extracted_info, session, thrown, escaping, io_failed,
                       dirs, files, written>>

---------------------------------------------------------------------------
(* run_scraper.                                                            *)

\* an exception e raised inside the try body of run_scraper
RaiseInTry(e) ==
    /\ thrown' = e
    /\ IF Catches(e)
       THEN success' = SuccessOnException /\ escaping' = "None"
       ELSE escaping' = e /\ UNCHANGED success
    /\ pc' = "finally"

\* driver = setup_driver(headless=headless)
SetupDriver(ok) ==
    /\ pc = "setup"
    /\ calls' = Append(calls, "setup_driver")
    /\ IF ok
       THEN /\ driver' = "session" /\ session' = "open"
            /\ pc' = "navigate"
            /\ UNCHANGED <<success, thrown, escaping>>
       ELSE /\ RaiseInTry("WebDriverException")
            /\ UNCHANGED <<driver, session>>
    /\ UNCHANGED <<contract, runNo, now, started, output_file,
                   wait_time, page_html, extracted_info, io_failed, exit_code,
                   dirs, files, written>>

\* page_html = navigate_to_url(driver, target_url, wait_time); if page_html: ...
NavigateToUrl(outcome, page_source) ==
    /\ pc = "navigate"
    /\ calls' = Append(calls, "navigate_to_url")
    /\ CASE outcome = "WebDriverException" ->
              \* driver.get(url) fails
              /\ RaiseInTry(outcome)
              /\ UNCHANGED <<now, page_html>>
         [] outcome = "TimeoutException" ->
              \* WebDriverWait(driver, wait_time) expires
              /\ now + wait_time <= MaxTime
              /\ now' = now + wait_time
              /\ RaiseInTry(outcome)
              /\ UNCHANGED page_html
         [] OTHER ->
              \* body present, time.sleep(wait_time), return driver.page_source
              /\ now + wait_time <= MaxTime
              /\ now' = now + wait_time
              /\ page_html' = page_source
              /\ IF TruthyHtml(page_source)
                 THEN pc' = "extract" /\ UNCHANGED success
                 ELSE pc' = "finally" /\ success' = FALSE
              /\ UNCHANGED <<thrown, escaping>>
    /\ UNCHANGED <<contract, runNo, started, output_file, wait_time,
                   driver, extracted_info, session, io_failed, exit_code,
                   dirs, files, written>>

\* extracted_info = extract_data(page_html)
ExtractData ==
    /\ pc = "extract"
    /\ calls' = Append(calls, "extract_data")
    /\ IF contract = "extract_unimplemented"
       THEN RaiseInTry("NotImplementedError") /\ UNCHANGED extracted_info
       ELSE /\ extracted_info' = extract_data(page_html)
            /\ pc' = "handle"
            /\ UNCHANGED <<success, thrown, escaping>>
    /\ UNCHANGED <<contract, runNo, now, started, output_file,
                   wait_time, driver, page_html, session, io_failed, exit_code,
                   dirs, files, written>>

WriteEvent(path) ==
    [run |-> runNo, started |-> started, at |-> now, stamp |-> Strftime(now),
     output_file |-> output_file, path |-> path]

SetFile(path) == [q \in (DOMAIN files) \cup {path} |->
                    IF q = path THEN runNo ELSE files[q]]

\* handle_data(extracted_info, output_file); success = True
HandleData(io) ==
    LET path       == final_filename(output_file, now)
        output_dir == dirname(path)
        makes_dir  == TruthyStr(output_dir) /\ output_dir \notin dirs
        made       == IF makes_dir THEN dirs \cup Ancestors(output_dir) ELSE dirs
        returns    == /\ success' = TRUE /\ pc' = "finally"
                      /\ UNCHANGED <<thrown, escaping>>
    IN  /\ pc = "handle"
        /\ calls' = Append(calls, "handle_data")
        /\ IF contract = "handle_unimplemented"
           THEN /\ io = "ok"
                /\ RaiseInTry("NotImplementedError")
                /\ UNCHANGED <<dirs, files, written, io_failed>>
           ELSE IF SkipWrite(extracted_info)
           THEN /\ io = "ok"
                /\ returns
                /\ UNCHANGED <<dirs, files, written, io_failed>>
           ELSE /\ CASE io = "makedirs_fails" ->
                          /\ makes_dir
                          /\ UNCHANGED <<dirs, files, written>>
                     [] io = "open_fails" ->
                          /\ dirs' = made
                          /\ UNCHANGED <<files, written>>
                     [] io = "write_fails" ->
                          /\ dirs' = made
                          /\ files' = SetFile(path)
                          /\ written' = Append(written, WriteEvent(path))
                     [] OTHER ->
                          /\ dirs' = made
                          /\ files' = SetFile(path)
                          /\ written' = Append(written, WriteEvent(path))
                /\ io_failed' = (io # "ok")
                /\ IF io = "ok" \/ HandleCatches("OSError")
                   THEN returns
                   ELSE RaiseInTry("OSError")
        /\ UNCHANGED <<contract, runNo, now, started, output_file,
                       wait_time, driver, page_html, extracted_info, session,
                       exit_code>>

\* finally: if driver: driver.quit()
Finally ==
    /\ pc = "finally"
    /\ IF ReleaseNeeded(driver)
       THEN calls' = Append(calls, "quit") /\ session' = "closed"
       ELSE UNCHANGED <<calls, session>>
    /\ pc' = "return"
    /\ UNCHANGED <<contract, runNo, now, started, output_file,
                   wait_time, driver, success, page_html, extracted_info,
                   thrown, escaping, io_failed, exit_code, dirs, files, written>>

---------------------------------------------------------------------------
(* cli.run from the return of run_scraper to typer.Exit.                   *)

\* the exit code cli.run raises typer.Exit with, given what run_scraper
\* raised (esc) or returned (ok)
ExitCode(esc, ok) ==
    IF esc = "NotImplementedError" THEN 2
    ELSE IF esc # "None" THEN 1
    ELSE IF ok THEN 0 ELSE 1

CliExit ==
    /\ pc = "return"
    /\ exit_code' = ExitCode(escaping, success)
    /\ pc' = "exited"
    /\ UNCHANGED <<contract, runNo, now, started, output_file,
                   wait_time, driver, success, page_html, extracted_info,
                   session, calls, thrown, escaping, io_failed, dirs, files,
                   written>>

---------------------------------------------------------------------------
(* The environment: time passes; the command is run again.                 *)

Tick ==
    /\ now < MaxTime
    /\ pc # "exited" \/ runNo < MaxRuns
    /\ now' = now + 1
    /\ UNCHANGED <<pc, contract, runNo, started, output_file,
                   wait_time, driver, success, page_html, extracted_info,
                   session, calls, thrown, escaping, io_failed, exit_code,
                   dirs, files, written>>

\* a new process runs the command; only the file system and the clock persist
NewRun ==
    /\ pc = "exited"
    /\ runNo < MaxRuns
    /\ runNo' = runNo + 1
    /\ pc' = "cli"
    /\ output_file' = <<>> /\ wait_time' = 0
    /\ driver' = "None" /\ success' = FALSE
    /\ page_html' = NoPage /\ extracted_info' = <<>>
    /\ session' = "none" /\ calls' = <<>>
    /\ thrown' = "None" /\ escaping' = "None" /\ io_failed' = FALSE
    /\ exit_code' = -1
    /\ started' = now
    /\ UNCHANGED <<contract, now, dirs, files, written>>

---------------------------------------------------------------------------
(* Specifications.                                                         *)

CliWaitTimes == {NoneOpt, Some(-1), Some(0), Some(1)}
ConfigWaitTimes == {0, 1}

StepOver(names, pages) ==
    \/ \E u \in {NoneOpt, Some(<<"u">>)}, bu \in {<<>>, <<"b">>},
          o \in {NoneOpt} \cup {Some(n) : n \in names},
          bo \in ConfigNames,
          w \in CliWaitTimes, bw \in ConfigWaitTimes :
            CliRun(u, bu, o, bo, w, bw)
    \/ \E ok \in BOOLEAN : SetupDriver(ok)
    \/ \E outcome \in {"WebDriverException", "TimeoutException", "loaded"},
          page_source \in pages :
            NavigateToUrl(outcome, page_source)
    \/ ExtractData
    \/ \E io \in {"ok", "makedirs_fails", "open_fails", "write_fails"} : HandleData(io)
    \/ Finally
    \/ CliExit
    \/ Tick

\* one invocation of the command
Next == StepOver(OutputNames, SamplePages)
Spec == Init /\ [][Next]_vars

\* one invocation of the base template
SpecTemplate == InitTemplate /\ [][Next]_vars

\* the command run MaxRuns times, one process after the other
RunNames == { <<"d", ".", "x", "/", "o">> }
RunPages == {EmptyPage, PageOf(<<GoodDiv>>)}
NextRuns == StepOver(RunNames, RunPages) \/ NewRun
SpecRuns == Init /\ [][NextRuns]_vars

\* extract_data on its own, over ExtractInputs
InitExtract ==
    /\ pc = "extract" /\ contract = "example"
    /\ runNo = 1 /\ now = ClockStart /\ started = ClockStart
    /\ output_file = <<"o">> /\ wait_time = 0
    /\ driver = "session" /\ success = FALSE
    /\ page_html \in ExtractInputs /\ extracted_info = <<>>
    /\ session = "open"
    /\ calls = <<"run_scraper", "setup_driver", "navigate_to_url">>
    /\ thrown = "None" /\ escaping = "None" /\ io_failed = FALSE
    /\ exit_code = -1
    /\ dirs = {} /\ files = <<>> /\ written = <<>>

SpecExtract == InitExtract /\ [][ExtractData]_vars

---------------------------------------------------------------------------
(* Vocabulary of the properties.                                           *)

Count(seq, x) == Cardinality({i \in DOMAIN seq : seq[i] = x})
Called(f) == \E i \in DOMAIN calls : calls[i] = f
Last(seq) == seq[Len(seq)]

\* run_scraper was entered and has returned or raised
Returned == pc \in {"return", "exited"} /\ calls # <<>>
ReturnedFalse == Returned /\ escaping = "None" /\ success = FALSE
ReturnedTrue == Returned /\ escaping = "None" /\ success = TRUE

SessionAcquired == driver = "session"
SetupFailed == Called("setup_driver") /\ driver = "None" /\ pc # "setup"
NavigateFailed == Called("navigate_to_url")
                  /\ thrown \in {"WebDriverException", "TimeoutException"}
\* navigate_to_url returned, and returned the empty string
NavigatedEmpty == Called("navigate_to_url") /\ thrown = "None" /\ page_html.empty
\* navigate_to_url returned a non-empty page
NavigatedNonEmpty == Called("navigate_to_url") /\ ~page_html.empty

WrittenThisRun == {i \in DOMAIN written : written[i].run = runNo}
FilesThisRun == {q \in DOMAIN files : files[q] = runNo}

---------------------------------------------------------------------------
(* C1: whatever setup_driver, navigate_to_url, extract_data and handle_data *)
(* do, once run_scraper has returned driver.quit() was called exactly once  *)
(* if setup_driver returned a session (and the session is closed), and was  *)
(* not called at all if no session was acquired; it is never called twice.  *)
C1_ReleasedExactlyOnce ==
    /\ Count(calls, "quit") <= 1
    /\ Returned /\ SessionAcquired => Count(calls, "quit") = 1 /\ session = "closed"
    /\ ~SessionAcquired => Count(calls, "quit") = 0 /\ session = "none"

\* a run whose navigation timed out has returned with its session released
C1_Witness ==
    pc = "return" /\ thrown = "TimeoutException" /\ SessionAcquired
    /\ Count(calls, "quit") = 1

(* C2: if setup_driver raises, navigate_to_url, extract_data and            *)
(* handle_data are never invoked, no release is attempted, and run_scraper  *)
(* returns False.                                                           *)
C2_SetupFailureStopsRun ==
    SetupFailed =>
        /\ ~Called("navigate_to_url") /\ ~Called("extract_data")
        /\ ~Called("handle_data") /\ ~Called("quit")
        /\ thrown = "WebDriverException"
        /\ Returned => ReturnedFalse

C2_Witness == pc = "return" /\ SetupFailed /\ calls = <<"run_scraper", "setup_driver">>

(* C3: if navigate_to_url returns an empty HTML string, run_scraper returns *)
(* False, extract_data and handle_data are not invoked, and the run creates *)
(* no output file.                                                          *)
C3_EmptyHtmlFails ==
    NavigatedEmpty =>
        /\ ~Called("extract_data") /\ ~Called("handle_data")
        /\ WrittenThisRun = {} /\ FilesThisRun = {}
        /\ Returned => ReturnedFalse

C3_Witness == pc = "return" /\ NavigatedEmpty /\ session = "closed"

(* C4: every failure of setup_driver or navigate_to_url (a readiness        *)
(* timeout included) is caught by run_scraper: it returns False and no      *)
(* exception escapes to the caller.                                         *)
C4_SetupAndNavigationErrorsCaught ==
    (SetupFailed \/ NavigateFailed) =>
        /\ escaping = "None"
        /\ pc \in {"finally", "return", "exited"}
        /\ success = FALSE
        /\ Returned => ReturnedFalse
        /\ pc = "exited" => exit_code = 1

C4_Witness == pc = "return" /\ NavigateFailed /\ thrown = "WebDriverException"

(* C5: when setup_driver succeeds and navigate_to_url returns non-empty     *)
(* HTML, run_scraper returns True, whether extract_data yields records or   *)
(* none and whether handle_data's directory creation or file write fails;   *)
(* handle_data raises no I/O failure to run_scraper.                        *)
C5_ExtractionAndStorageNeverFail ==
    /\ Returned /\ NavigatedNonEmpty => ReturnedTrue /\ thrown = "None"
    /\ io_failed => thrown = "None" /\ escaping = "None" /\ success = TRUE

\* a run whose file write failed has returned True
C5_Witness == pc = "return" /\ io_failed /\ ReturnedTrue /\ extracted_info # <<>>

(* C6: the exit code of the command is 0 when run_scraper returned True, 1  *)
(* when it completed with False, and 2 when extract_data or handle_data     *)
(* raised NotImplementedError during the run.                               *)
C6_ExitCodeContract ==
    pc = "exited" /\ calls # <<>> =>
        exit_code = IF thrown = "NotImplementedError" THEN 2
                    ELSE IF success THEN 0 ELSE 1

---------------------------------------------------------------------------
(* C7.  What a container must hold for its record to be kept, stated on    *)
(* the raw element texts.                                                  *)

IsCurly(c) == c = LDQuo \/ c = RDQuo

\* the span.text element is there
HasText(d) == d.text # NoneOpt
\* the small.author element is there
HasAuthor(d) == d.author # NoneOpt

\* the element's text has a character that survives strip() and the removal
\* of the curly quotes: a non-quote character that is not leading or trailing
\* white space
QuoteNonEmpty(d) ==
    /\ HasText(d)
    /\ LET t == d.text[1]
       IN  \E i \in 1..Len(t) :
              /\ ~IsCurly(t[i])
              /\ \/ ~IsSpace(t[i])
                 \/ /\ \E j \in 1..(i-1) : ~IsSpace(t[j])
                    /\ \E k \in (i+1)..Len(t) : ~IsSpace(t[k])

AuthorNonEmpty(d) ==
    /\ HasAuthor(d)
    /\ \E i \in 1..Len(d.author[1]) : ~IsSpace(d.author[1][i])

\* the indices among 1..Len(divs) that satisfy P, in increasing order
RECURSIVE Ascending(_)
Ascending(S) == IF S = {} THEN <<>>
                ELSE LET m == CHOOSE x \in S : \A y \in S : x <= y
                     IN  <<m>> \o Ascending(S \ {m})

\* extract_data has returned in this state
Extracted == pc = "handle" /\ Last(calls) = "extract_data"

(* C7 (as stated): of N containers, the M that have both the quote element *)
(* and the author element present give exactly M records, one per such     *)
(* container, in container order; the others give none.                    *)
C7_OnePerContainerWithBothPresent ==
    Extracted =>
        LET divs == page_html.divs
            kept == Ascending({i \in 1..Len(divs) : HasText(divs[i]) /\ HasAuthor(divs[i])})
        IN  /\ Len(extracted_info) = Len(kept)
            /\ \A k \in 1..Len(kept) : extracted_info[k] = ItemOf(divs[kept[k]])

(* C7 (amended): of N containers, the M whose quote text is non-empty      *)
(* after trimming and removal of the curly quotes and whose author text is *)
(* non-empty after trimming give exactly M records, one per such           *)
(* container, in container order; a container whose field is absent or     *)
(* empty gives none.                                                       *)
C7_OnePerContainerWithBothNonEmpty ==
    Extracted =>
        LET divs == page_html.divs
            kept == Ascending({i \in 1..Len(divs) :
                                 QuoteNonEmpty(divs[i]) /\ AuthorNonEmpty(divs[i])})
        IN  /\ Len(extracted_info) = Len(kept)
            /\ \A k \in 1..Len(kept) :
                  /\ extracted_info[k] = ItemOf(divs[kept[k]])
                  /\ extracted_info[k].quote # NoneOpt
                  /\ extracted_info[k].quote[1] # <<>>
                  /\ extracted_info[k].author # NoneOpt
                  /\ extracted_info[k].author[1] # <<>>

\* two containers, the first with a blank quote text: one record, from the second
C7_Witness ==
    /\ Extracted
    /\ page_html.divs = <<BlankDiv, GoodDiv>>
    /\ extracted_info = <<[quote |-> Some(<<"q">>), author |-> Some(<<"a">>)]>>

---------------------------------------------------------------------------
(* C8: HTML with zero matching containers makes extract_data return the    *)
(* empty sequence; handle_data called with an empty sequence creates no    *)
(* directory, writes no file, logs no failure and returns normally; the    *)
(* run reports success.                                                    *)
C8_EmptyExtractionIsNoOp ==
    /\ [](Extracted /\ page_html.divs = <<>> => extracted_info = <<>>)
    /\ [](pc = "exited" /\ Called("handle_data") /\ extracted_info = <<>>
            => exit_code = 0 /\ success = TRUE)
    /\ [][pc = "handle" /\ extracted_info = <<>> /\ pc' # "handle"
            => /\ dirs' = dirs /\ files' = files /\ written' = written
               /\ io_failed' = FALSE /\ thrown' = "None" /\ escaping' = "None"
               /\ success' = TRUE /\ pc' = "finally"]_vars

C8_Witness ==
    /\ pc = "exited" /\ exit_code = 0
    /\ ~page_html.empty /\ page_html.divs = <<>>
    /\ Last(calls) = "quit" /\ Called("handle_data")
    /\ files = <<>>

---------------------------------------------------------------------------
(* C9.                                                                     *)

IsDigitChar(c) == c \in {"0", "1", "2", "3", "4", "5", "6", "7", "8", "9"}

\* YYYYMMDD_HHMMSS
IsStamp(st) ==
    /\ Len(st) = 15
    /\ st[9] = "_"
    /\ \A i \in (1..15) \ {9} : IsDigitChar(st[i])

\* the path is <base>_<stamp><ext>, ext the name's extension or .csv
HasPathForm(e) ==
    \E cut \in 0..Len(e.output_file) :
        LET base == SubSeq(e.output_file, 1, cut)
            rest == SubSeq(e.output_file, cut + 1, Len(e.output_file))
        IN  /\ <<base, rest>> = splitext(e.output_file)
            /\ IsStamp(e.stamp)
            /\ e.path = base \o <<"_">> \o e.stamp
                        \o (IF rest = <<>> THEN <<".", "c", "s", "v">> ELSE rest)

SameName(i, j) == written[i].output_file = written[j].output_file

Apart(a, b) == a - b > 1 \/ b - a > 1

(* C9 (as stated): every output path has the form <base>_<stamp><ext>, and *)
(* two runs with the same configured name that started more than one       *)
(* second apart write to different paths.                                  *)
C9_DistinctPathsByStartTime ==
    /\ \A i \in DOMAIN written : HasPathForm(written[i])
    /\ \A i, j \in DOMAIN written :
          i < j /\ SameName(i, j) /\ Apart(written[i].started, written[j].started)
            => written[i].path # written[j].path

(* C9 (amended): every output path has the form <base>_<stamp><ext>, and   *)
(* two runs with the same configured name whose handle_data calls read     *)
(* different seconds of the clock write to different paths.                *)
C9_DistinctPathsByWriteTime ==
    /\ \A i \in DOMAIN written : HasPathForm(written[i])
    /\ \A i, j \in DOMAIN written :
          i < j /\ SameName(i, j) /\ written[i].at # written[j].at
            => /\ written[i].path # written[j].path
               /\ written[i].path \in DOMAIN files
               /\ written[j].path \in DOMAIN files

\* two runs with the same name wrote in different seconds, across midnight
C9_Witness ==
    /\ Len(written) = 2
    /\ written[1].run = 1 /\ written[2].run = 2
    /\ SameName(1, 2)
    /\ written[1].at < 24 * 60 * 60 /\ written[2].at >= 24 * 60 * 60
    /\ files[written[1].path] = 1 /\ files[written[2].path] = 2

---------------------------------------------------------------------------
(* The calls of one run, in the order run_scraper makes them.              *)
Pipeline == <<"run_scraper", "setup_driver", "navigate_to_url",
              "extract_data", "handle_data">>

IsPrefix(a, b) == Len(a) <= Len(b) /\ a = SubSeq(b, 1, Len(a))

====
